---------------------------- MODULE Spec2Model ----------------------------
(***************************************************************************)
(* A model of SpinLock<T> (src/spin_lock.rs) and of the benchmark driver   *)
(* that uses it (src/main.rs).                                             *)
(*                                                                         *)
(* One step of a thread is one access to shared memory (a compare-and-swap *)
(* of the flag, a load of the flag, a store to the flag, a read or a write *)
(* of the payload) together with the thread-local code that follows it up  *)
(* to the next shared access.  A wait-loop iteration (the load of the flag *)
(* and the loop body: yield, counters, sleep) is therefore one step.       *)
(*                                                                         *)
(* The flag is an atomic with a single modification order; a load that     *)
(* returns an older value of the flag is the same as that load scheduled   *)
(* earlier, so loads read the current value.  The payload is plain memory: *)
(* a thread is guaranteed to see the latest write to it only if that write *)
(* happens-before the access, which the Release store of unlock and the    *)
(* Acquire compare-and-swap of lock establish.  stale[t] says that the     *)
(* latest payload write does not happen-before thread t's next step, and   *)
(* msgStale that it does not happen-before the latest Release store of the *)
(* flag.  An access by a stale thread is a data race: its outcome is any   *)
(* payload value.                                                          *)
(***************************************************************************)
EXTENDS Integers, FiniteSets, Sequences, TLC

\* ------------------------------------------------------------------ bounds
\* Threads sharing the lock (main.rs spawns THREAD_COUNT = 32 of them).
NumThreads == 2
\* Outer iterations of a worker of main.rs (JOB_COUNT * 10 in the source).
NumJobs == 2
\* The computations passed to with_lock store a value of 0..MaxVal.
MaxVal == 1

\* ------------------------------------------------------- program constants
USE_SLEEP_SPIN_LOCK == TRUE
SPIN_LOCK_SLEEP_ONE_FREQUENCY == 50
SPIN_LOCK_MAX_ATTEMPTS == 500

Threads == 1..NumThreads
Values == 0..MaxVal
\* Every value the payload takes in the model (the outcomes of a racy access).
Payloads == 0..(IF NumThreads * NumJobs > MaxVal THEN NumThreads * NumJobs ELSE MaxVal)

ErrMaxAttempts == "Failed to acquire lock after maximum attempts"

VARIABLES
    lock_,      \* SpinLock.lock_: the flag, TRUE = held
    data,       \* SpinLock.data: the payload (its latest write)
    stale,      \* stale[t]: the latest payload write does not happen-before t
    msgStale,   \* the latest payload write does not happen-before the flag's latest Release store
    pc,         \* pc[t]: where thread t is
    op,         \* op[t]: the operation of SpinLock thread t called last
    freq,       \* freq[t]: local of lock / lock_with_max_attempts
    attempts,   \* attempts[t]: local of lock_with_max_attempts
    r,          \* r[t]: the payload value thread t read in its critical section
    result,     \* result[t]: local of with_lock / with_lock_timeout, {} before it is set
    ret,        \* ret[t]: what the last call of t returned
    job,        \* job[t]: outer loop index of worker t (main.rs:38)
    a,          \* a[t]: inner loop index of worker t (main.rs:39)
    printed,    \* what main printed as the final counter (main.rs:62), {} before
    nested,     \* nested[t]: t called lock() while holding the lease
    \* history variables (no code reads them)
    holds,      \* holds[t]: t is between its successful acquire and its unlock
    fcalls,     \* fcalls[t]: invocations of the computation in t's current helper call
    fres,       \* fres[t]: what the computation returned, {} if it has not run
    waited,     \* waited[t]: t's acquire, pending or failed, performed a wait-loop iteration
    sawFree,    \* sawFree[t]: a poll of t's acquire, pending or failed, left the wait loop on a free flag after counted iterations
    everHeld,   \* some compare-and-swap on the lock has succeeded
    released,   \* some lease has been released by its holder's unlock
    left,       \* the payload as the last lease left it (as passed to new if there was none)
    badAccess,  \* some payload access was made by a thread that did not hold the lease
    misuse,     \* the kinds of unlock calls made so far by threads that did not hold the lease
    sleeps,     \* sleeps[t]: thread::sleep calls of t's lock_with_max_attempts, pending or failed
    sched       \* sched[t]: the scheduler calls of the last wait-loop iteration of t's acquire

vars == <<lock_, data, stale, msgStale, pc, op, freq, attempts, r, result, ret,
          job, a, printed, nested, holds, fcalls, fres, waited, sawFree, everHeld, released,
          left, badAccess, misuse, sleeps, sched>>

locals == <<freq, attempts>>
harnessVars == <<job, a, printed>>
helperVars == <<result, fcalls, fres>>
memVars == <<data, stale, msgStale, left, badAccess, released>>
backoff == <<sleeps, sched>>

NoRet == [kind |-> "none", val |-> {}]
OkUnit == [kind |-> "Ok", val |-> {}]
OkVal(v) == [kind |-> "Ok", val |-> {v}]
ErrRet == [kind |-> "Err", val |-> {ErrMaxAttempts}]

\* --------------------------------------------------------------- SpinLock::new
\* (mutant) a lock constructed held
new_lock_held == TRUE

\* The flag of a new lock.
new_lock_ == FALSE

\* new(initial): the payload is initial, the flag is free.  The lock is shared
\* with the threads after construction (Arc::clone, thread::spawn), so the
\* initial payload happens-before every thread.
new(initial) ==
    /\ lock_ = new_lock_
    /\ data = initial
    /\ stale = [t \in Threads |-> FALSE]
    /\ msgStale = FALSE
    /\ left = initial

NoThreadStarted ==
    /\ pc = [t \in Threads |-> "idle"]
    /\ op = [t \in Threads |-> "none"]
    /\ freq = [t \in Threads |-> 0]
    /\ attempts = [t \in Threads |-> 0]
    /\ r = [t \in Threads |-> 0]
    /\ result = [t \in Threads |-> {}]
    /\ ret = [t \in Threads |-> NoRet]
    /\ job = [t \in Threads |-> 0]
    /\ a = [t \in Threads |-> 0]
    /\ printed = {}
    /\ nested = [t \in Threads |-> FALSE]
    /\ holds = [t \in Threads |-> FALSE]
    /\ fcalls = [t \in Threads |-> 0]
    /\ fres = [t \in Threads |-> {}]
    /\ waited = [t \in Threads |-> FALSE]
    /\ sawFree = [t \in Threads |-> FALSE]
    /\ everHeld = FALSE
    /\ released = FALSE
    /\ badAccess = FALSE
    /\ misuse = {}
    /\ sleeps = [t \in Threads |-> 0]
    /\ sched = [t \in Threads |-> <<>>]

\* A lock constructed with any initial payload.
Init == (\E initial \in Values : new(initial)) /\ NoThreadStarted

\* ------------------------------------------------------------ payload access
\* What a read of the payload by t may return.
ReadOutcomes(t) == IF stale[t] THEN Payloads ELSE {data}

\* What the payload may hold after t writes v.
WriteOutcomes(t, v) == IF stale[t] THEN Payloads ELSE {v}

\* t reads the payload into r[t] (unsafe { *self.data.get() }).
ReadPayload(t) ==
    /\ \E v \in ReadOutcomes(t) : r' = [r EXCEPT ![t] = v]
    /\ badAccess' = (badAccess \/ ~holds[t])
    /\ UNCHANGED <<data, stale, msgStale, left, released>>

\* t writes v to the payload.
WritePayload(t, v) ==
    /\ \E w \in WriteOutcomes(t, v) : data' = w
    /\ stale' = [u \in Threads |-> u # t]
    /\ msgStale' = TRUE
    /\ badAccess' = (badAccess \/ ~holds[t])
    /\ UNCHANGED <<left, released>>


\* ------------------------------------------------------------ acquire/release
\* (mutant) lock() runs the loop of lock_with_max_attempts
BoundedAll(o) == TRUE

\* The operations that acquire by lock_with_max_attempts.
Bounded(o) == o \in {"lock_with_max_attempts", "with_lock_timeout"}
Helper(o) == o \in {"with_lock", "with_lock_timeout"}

\* (mutant) compare_exchange(true, true, ..): the wrong expected value
CasExpectsHeld(flag) == flag = TRUE

\* (mutant) the result of compare_exchange is ignored
CasResultIgnored(flag) == TRUE

\* compare_exchange(false, true, ..): it succeeds iff the flag is the expected false.
CasSucceeds(flag) == flag = FALSE

\* (mutant) Ordering::Relaxed on success: no synchronisation
AcquireViewRelaxed(st, msg) == st

\* Ordering::Acquire on success: what happens-before the Release store that
\* wrote the value read happens-before the thread from here on.
AcquireView(st, msg) == st /\ msg

\* (mutant) Ordering::Relaxed store: it carries no view
ReleaseViewRelaxed(st) == TRUE

\* Ordering::Release of unlock's store: the store carries the storing thread's view.
ReleaseView(st) == st

\* freq += 1; if freq == SPIN_LOCK_SLEEP_ONE_FREQUENCY: the iteration that
\* finds the counter at f sleeps.
Sleeps(f) == USE_SLEEP_SPIN_LOCK /\ f + 1 = SPIN_LOCK_SLEEP_ONE_FREQUENCY

\* The scheduler calls of a wait-loop iteration that does not return:
\* thread::yield_now() first (spin_lock.rs:53, 81), and thread::sleep(1 ms)
\* if the iteration sleeps (59, 92).
SchedCalls(f) == IF Sleeps(f) THEN <<"yield_now", "sleep">> ELSE <<"yield_now">>

\* (mutant) if freq > SPIN_LOCK_SLEEP_ONE_FREQUENCY
NextFreqLate(f) ==
    IF USE_SLEEP_SPIN_LOCK
    THEN IF f + 1 > SPIN_LOCK_SLEEP_ONE_FREQUENCY THEN 0 ELSE f + 1
    ELSE f

\* The loop body's sleep bookkeeping: freq += 1; at SPIN_LOCK_SLEEP_ONE_FREQUENCY
\* the thread sleeps 1 ms and freq is reset.
NextFreq(f) ==
    IF USE_SLEEP_SPIN_LOCK
    THEN IF f + 1 = SPIN_LOCK_SLEEP_ONE_FREQUENCY THEN 0 ELSE f + 1
    ELSE f

\* (mutant) if attempts > SPIN_LOCK_MAX_ATTEMPTS
TimesOutLate(o, att) == Bounded(o) /\ att + 1 > SPIN_LOCK_MAX_ATTEMPTS

\* attempts += 1; if attempts >= SPIN_LOCK_MAX_ATTEMPTS { return Err(..) }
\* (only in lock_with_max_attempts)
TimesOut(o, att) == Bounded(o) /\ att + 1 >= SPIN_LOCK_MAX_ATTEMPTS

\* (mutant) with_lock_timeout drops the error of lock_with_max_attempts
AfterAcquireErrDropped(o, ok) ==
    IF Helper(o) THEN "f_read" ELSE IF ok THEN "held" ELSE "idle"

\* Where the caller continues when the acquire inside operation o returned
\* (ok: it returned having acquired).  lock and lock_with_max_attempts return
\* to the caller; with_lock goes on to the computation; with_lock_timeout
\* does so on Ok and returns the error on Err (the ? operator).
AfterAcquire(o, ok) ==
    IF ok THEN (IF Helper(o) THEN "f_read" ELSE "held") ELSE "idle"

\* What the call has returned at that point.
RetOfAcquire(o, ok) ==
    IF ~ok THEN ErrRet
    ELSE IF o = "lock" THEN [kind |-> "unit", val |-> {}]
    ELSE IF o = "lock_with_max_attempts" THEN OkUnit
    ELSE NoRet

\* Thread t enters operation o of the lock: the locals of the acquire loop are
\* initialised (let mut freq = 0; let mut attempts = 0;).
Enter(t, o) ==
    /\ op' = [op EXCEPT ![t] = o]
    /\ pc' = [pc EXCEPT ![t] = "cas"]
    /\ freq' = [freq EXCEPT ![t] = 0]
    /\ attempts' = [attempts EXCEPT ![t] = 0]
    /\ r' = [r EXCEPT ![t] = 0]
    /\ result' = [result EXCEPT ![t] = {}]
    /\ ret' = [ret EXCEPT ![t] = NoRet]
    /\ fcalls' = [fcalls EXCEPT ![t] = 0]
    /\ fres' = [fres EXCEPT ![t] = {}]
    /\ waited' = [waited EXCEPT ![t] = FALSE]
    /\ sawFree' = [sawFree EXCEPT ![t] = FALSE]
    /\ sleeps' = [sleeps EXCEPT ![t] = 0]
    /\ sched' = [sched EXCEPT ![t] = <<>>]
    /\ UNCHANGED <<lock_, memVars, harnessVars, holds, everHeld, misuse>>

\* (mutant) attempts is set to 0 again when the compare-and-swap is retried
LockCasResetsAttempts(t) ==
    /\ pc[t] = "cas"
    /\ IF CasSucceeds(lock_)
       THEN /\ lock_' = TRUE
            /\ stale' = [stale EXCEPT ![t] = AcquireView(stale[t], msgStale)]
            /\ holds' = [holds EXCEPT ![t] = TRUE]
            /\ everHeld' = TRUE
            /\ pc' = [pc EXCEPT ![t] = AfterAcquire(op[t], TRUE)]
            /\ ret' = [ret EXCEPT ![t] = RetOfAcquire(op[t], TRUE)]
            /\ freq' = [freq EXCEPT ![t] = 0]
            /\ attempts' = [attempts EXCEPT ![t] = 0]
            /\ waited' = [waited EXCEPT ![t] = FALSE]
            /\ sawFree' = [sawFree EXCEPT ![t] = FALSE]
            /\ sleeps' = [sleeps EXCEPT ![t] = 0]
            /\ sched' = [sched EXCEPT ![t] = <<>>]
       ELSE /\ pc' = [pc EXCEPT ![t] = "poll"]
            /\ attempts' = [attempts EXCEPT ![t] = 0]
            /\ UNCHANGED <<lock_, stale, holds, everHeld, ret, freq,
                           waited, sawFree, backoff>>
    /\ UNCHANGED <<data, msgStale, left, badAccess, released, op, r, helperVars,
                   harnessVars, nested, misuse>>

\* The compare-and-swap at the top of the loop of lock (spin_lock.rs:44-50)
\* and of lock_with_max_attempts (72-78).  The locals end with the call that
\* acquired, and so does the history of its waiting.
LockCas(t) ==
    /\ pc[t] = "cas"
    /\ IF CasSucceeds(lock_)
       THEN /\ lock_' = TRUE
            /\ stale' = [stale EXCEPT ![t] = AcquireView(stale[t], msgStale)]
            /\ holds' = [holds EXCEPT ![t] = TRUE]
            /\ everHeld' = TRUE
            /\ pc' = [pc EXCEPT ![t] = AfterAcquire(op[t], TRUE)]
            /\ ret' = [ret EXCEPT ![t] = RetOfAcquire(op[t], TRUE)]
            /\ freq' = [freq EXCEPT ![t] = 0]
            /\ attempts' = [attempts EXCEPT ![t] = 0]
            /\ waited' = [waited EXCEPT ![t] = FALSE]
            /\ sawFree' = [sawFree EXCEPT ![t] = FALSE]
            /\ sleeps' = [sleeps EXCEPT ![t] = 0]
            /\ sched' = [sched EXCEPT ![t] = <<>>]
       ELSE /\ pc' = [pc EXCEPT ![t] = "poll"]
            /\ UNCHANGED <<lock_, stale, holds, everHeld, ret, freq, attempts,
                           waited, sawFree, backoff>>
    /\ UNCHANGED <<data, msgStale, left, badAccess, released, op, r, helperVars,
                   harnessVars, nested, misuse>>

\* (mutant) the timeout path stores false to the flag before it returns
LockPollErrUnlocks(t) ==
    /\ pc[t] = "poll"
    /\ IF lock_
       THEN /\ waited' = [waited EXCEPT ![t] = TRUE]
            /\ IF TimesOut(op[t], attempts[t])
               THEN /\ pc' = [pc EXCEPT ![t] = AfterAcquire(op[t], FALSE)]
                    /\ ret' = [ret EXCEPT ![t] = RetOfAcquire(op[t], FALSE)]
                    /\ attempts' = [attempts EXCEPT ![t] = @ + 1]
                    /\ sched' = [sched EXCEPT ![t] = <<"yield_now">>]
                    /\ lock_' = FALSE
                    /\ UNCHANGED <<freq, sleeps>>
               ELSE /\ attempts' = [attempts EXCEPT ![t] =
                                      IF Bounded(op[t]) THEN @ + 1 ELSE @]
                    /\ freq' = [freq EXCEPT ![t] = NextFreq(@)]
                    /\ sched' = [sched EXCEPT ![t] = SchedCalls(freq[t])]
                    /\ sleeps' = [sleeps EXCEPT ![t] =
                                    IF Bounded(op[t]) /\ Sleeps(freq[t]) THEN @ + 1 ELSE @]
                    /\ UNCHANGED <<pc, ret, lock_>>
            /\ UNCHANGED sawFree
       ELSE /\ pc' = [pc EXCEPT ![t] = "cas"]
            /\ sawFree' = [sawFree EXCEPT ![t] = @ \/ waited[t]]
            /\ UNCHANGED <<waited, ret, freq, attempts, backoff, lock_>>
    /\ UNCHANGED <<memVars, op, r, helperVars, harnessVars, nested,
                   holds, everHeld, misuse>>

\* One evaluation of the wait loop's condition, self.lock_.load(Relaxed), and,
\* if the flag is held, one iteration of its body (spin_lock.rs:52-63, 80-96).
\* The locals keep their last values when the call returns the error; Enter
\* initialises them again.
LockPoll(t) ==
    /\ pc[t] = "poll"
    /\ IF lock_
       THEN /\ waited' = [waited EXCEPT ![t] = TRUE]
            /\ IF TimesOut(op[t], attempts[t])
               THEN /\ pc' = [pc EXCEPT ![t] = AfterAcquire(op[t], FALSE)]
                    /\ ret' = [ret EXCEPT ![t] = RetOfAcquire(op[t], FALSE)]
                    /\ attempts' = [attempts EXCEPT ![t] = @ + 1]
                    /\ sched' = [sched EXCEPT ![t] = <<"yield_now">>]
                    /\ UNCHANGED <<freq, sleeps>>
               ELSE /\ attempts' = [attempts EXCEPT ![t] =
                                      IF Bounded(op[t]) THEN @ + 1 ELSE @]
                    /\ freq' = [freq EXCEPT ![t] = NextFreq(@)]
                    /\ sched' = [sched EXCEPT ![t] = SchedCalls(freq[t])]
                    /\ sleeps' = [sleeps EXCEPT ![t] =
                                    IF Bounded(op[t]) /\ Sleeps(freq[t]) THEN @ + 1 ELSE @]
                    /\ UNCHANGED <<pc, ret>>
            /\ UNCHANGED sawFree
       ELSE /\ pc' = [pc EXCEPT ![t] = "cas"]
            /\ sawFree' = [sawFree EXCEPT ![t] = @ \/ waited[t]]
            /\ UNCHANGED <<waited, ret, freq, attempts, backoff>>
    /\ UNCHANGED <<lock_, memVars, op, r, helperVars, harnessVars, nested,
                   holds, everHeld, misuse>>

\* (mutant) unlock without the store to the flag
unlockNoStore(t) ==
    /\ left' = IF holds[t] THEN data ELSE left
    /\ released' = (released \/ holds[t])
    /\ holds' = [holds EXCEPT ![t] = FALSE]
    /\ UNCHANGED <<lock_, msgStale, data, stale, badAccess>>

\* unlock (spin_lock.rs:100-102): self.lock_.store(false, Ordering::Release).
unlock(t) ==
    /\ lock_' = FALSE
    /\ msgStale' = ReleaseView(stale[t])
    /\ left' = IF holds[t] THEN data ELSE left
    /\ released' = (released \/ holds[t])
    /\ holds' = [holds EXCEPT ![t] = FALSE]
    /\ UNCHANGED <<data, stale, badAccess>>

\* --------------------------------------------- a caller that keeps the contract
\* An idle thread calls lock, lock_with_max_attempts, with_lock or
\* with_lock_timeout.
Call(t) ==
    /\ pc[t] = "idle"
    /\ \E o \in {"lock", "lock_with_max_attempts", "with_lock", "with_lock_timeout"} :
         Enter(t, o)
    /\ UNCHANGED nested

\* Between lock() and unlock() the caller may read the payload and store a
\* value to it, as main.rs:45-47 does.
ClientRead(t) ==
    /\ pc[t] = "held"
    /\ ReadPayload(t)
    /\ pc' = [pc EXCEPT ![t] = "cs_write"]
    /\ UNCHANGED <<lock_, op, locals, result, ret, harnessVars, nested, holds,
                   fcalls, fres, waited, sawFree, everHeld, misuse, backoff>>

ClientWrite(t) ==
    /\ pc[t] = "cs_write"
    /\ \E v \in Values : WritePayload(t, v)
    /\ pc' = [pc EXCEPT ![t] = "cs_done"]
    /\ UNCHANGED <<lock_, op, locals, r, result, ret, harnessVars, nested,
                   holds, fcalls, fres, waited, sawFree, everHeld, misuse, backoff>>

\* The caller's unlock, once per acquisition, by the thread that acquired.
ClientUnlock(t) ==
    /\ pc[t] \in {"held", "cs_done"}
    /\ unlock(t)
    /\ pc' = [pc EXCEPT ![t] = "idle"]
    /\ UNCHANGED <<op, locals, r, result, ret, harnessVars, nested, fcalls,
                   fres, waited, sawFree, everHeld, misuse, backoff>>

\* ------------------------------------------------ with_lock, with_lock_timeout
\* f(&mut *self.data.get()) (spin_lock.rs:107, 115).  The computation reads
\* the payload, stores a value of Values to it and returns what it read.
FRead(t) ==
    /\ pc[t] = "f_read"
    /\ ReadPayload(t)
    /\ fcalls' = [fcalls EXCEPT ![t] = @ + 1]
    /\ pc' = [pc EXCEPT ![t] = "f_write"]
    /\ UNCHANGED <<lock_, op, locals, result, ret, harnessVars, nested, holds,
                   fres, waited, sawFree, everHeld, misuse, backoff>>

\* The computation's store and its return: let result = f(..).
FWrite(t) ==
    /\ pc[t] = "f_write"
    /\ \E v \in Values : WritePayload(t, v)
    /\ result' = [result EXCEPT ![t] = {r[t]}]
    /\ fres' = [fres EXCEPT ![t] = {r[t]}]
    /\ pc' = [pc EXCEPT ![t] = "f_done"]
    /\ UNCHANGED <<lock_, op, locals, r, ret, harnessVars, nested, holds,
                   fcalls, waited, sawFree, everHeld, misuse, backoff>>

\* What the helper returns: with_lock result, with_lock_timeout Ok(result).
HelperRet(o, res) ==
    [kind |-> IF o = "with_lock" THEN "value" ELSE "Ok", val |-> res]

\* (mutant) the helper returns without self.unlock()
HelperReturnsLocked(t) ==
    /\ pc[t] = "f_done"
    /\ ret' = [ret EXCEPT ![t] = HelperRet(op[t], result[t])]
    /\ pc' = [pc EXCEPT ![t] = "idle"]
    /\ UNCHANGED <<lock_, memVars, holds, op, locals, r, result, harnessVars,
                   nested, fcalls, fres, waited, sawFree, everHeld, misuse, backoff>>

\* self.unlock(); result / Ok(result) (spin_lock.rs:108-109, 116-117).
HelperUnlock(t) ==
    /\ pc[t] = "f_done"
    /\ unlock(t)
    /\ ret' = [ret EXCEPT ![t] = HelperRet(op[t], result[t])]
    /\ pc' = [pc EXCEPT ![t] = "idle"]
    /\ UNCHANGED <<op, locals, r, result, harnessVars, nested, fcalls, fres,
                   waited, sawFree, everHeld, misuse, backoff>>

\* ------------------------------------------------------------- specification
Step(t) ==
    \/ Call(t)
    \/ LockCas(t)
    \/ LockPoll(t)
    \/ ClientRead(t)
    \/ ClientWrite(t)
    \/ ClientUnlock(t)
    \/ FRead(t)
    \/ FWrite(t)
    \/ HelperUnlock(t)

Next == \E t \in Threads : Step(t)

\* Any number of threads using one lock through its operations, each unlock
\* matching an acquisition of the same thread.
Spec == Init /\ [][Next]_vars

TypeOK ==
    /\ lock_ \in BOOLEAN
    /\ data \in Payloads
    /\ \A t \in Threads :
         /\ freq[t] \in 0..(SPIN_LOCK_SLEEP_ONE_FREQUENCY - 1)
         /\ attempts[t] \in 0..SPIN_LOCK_MAX_ATTEMPTS
         /\ pc[t] \in {"idle", "cas", "poll", "held", "cs_write", "cs_done",
                       "f_read", "f_write", "f_done", "done", "aborted"}


\* ------------------------------------------------------- main.rs: the harness
\* let lock_ = Arc::new(SpinLock::new(0)) (main.rs:30)
InitHarness == new(0) /\ NoThreadStarted

\* for _ in 0..JOB_COUNT * 10 { for a in 0..2 { lock_.lock(); (main.rs:38-44)
WorkerCall(t) ==
    /\ pc[t] = "idle"
    /\ job[t] < NumJobs
    /\ Enter(t, "lock")
    /\ UNCHANGED nested

\* *lock_.data.get() += a (main.rs:46): the read
WorkerRead(t) ==
    /\ pc[t] = "held"
    /\ ReadPayload(t)
    /\ pc' = [pc EXCEPT ![t] = "cs_write"]
    /\ UNCHANGED <<lock_, op, locals, result, ret, harnessVars, nested, holds,
                   fcalls, fres, waited, sawFree, everHeld, misuse, backoff>>

\* *lock_.data.get() += a (main.rs:46): the write
WorkerWrite(t) ==
    /\ pc[t] = "cs_write"
    /\ WritePayload(t, r[t] + a[t])
    /\ pc' = [pc EXCEPT ![t] = "cs_done"]
    /\ UNCHANGED <<lock_, op, locals, r, result, ret, harnessVars, nested,
                   holds, fcalls, fres, waited, sawFree, everHeld, misuse, backoff>>

\* lock_.unlock(); and the step of the two loops (main.rs:48-50).  The closure
\* ends after the last iteration.
WorkerUnlock(t) ==
    /\ pc[t] = "cs_done"
    /\ unlock(t)
    /\ IF a[t] + 1 < 2
       THEN /\ a' = [a EXCEPT ![t] = @ + 1]
            /\ job' = job
            /\ pc' = [pc EXCEPT ![t] = "idle"]
       ELSE /\ a' = [a EXCEPT ![t] = 0]
            /\ job' = [job EXCEPT ![t] = @ + 1]
            /\ pc' = [pc EXCEPT ![t] = IF job[t] + 1 < NumJobs THEN "idle" ELSE "done"]
    /\ UNCHANGED <<op, locals, r, result, ret, printed, nested, fcalls, fres,
                   waited, sawFree, everHeld, misuse, backoff>>

\* thread.join() of every worker, then the read of the counter that is
\* printed (main.rs:56-64).  The join makes every write of the workers
\* happen-before the read.
MainJoin ==
    /\ \A t \in Threads : pc[t] = "done"
    /\ printed = {}
    /\ printed' = {data}
    /\ UNCHANGED <<lock_, memVars, pc, op, locals, r, result, ret, job, a,
                   nested, holds, fcalls, fres, waited, sawFree, everHeld, misuse, backoff>>

WorkerStep(t) ==
    \/ WorkerCall(t)
    \/ LockCas(t)
    \/ LockPoll(t)
    \/ WorkerRead(t)
    \/ WorkerWrite(t)
    \/ WorkerUnlock(t)

NextHarness == (\E t \in Threads : WorkerStep(t)) \/ MainJoin

\* main.rs with NumThreads workers of NumJobs outer iterations each.
SpecHarness == InitHarness /\ [][NextHarness]_vars

\* main.rs on a scheduler that runs every worker that can run, and main once
\* the workers are joined.
SpecHarnessFair ==
    /\ InitHarness
    /\ [][NextHarness]_vars
    /\ \A t \in Threads : WF_vars(WorkerStep(t))
    /\ WF_vars(MainJoin)

\* ------------------------------------- the lock held and never released
\* An idle thread calls lock or lock_with_max_attempts.
CallAcquire(t) ==
    /\ pc[t] = "idle"
    /\ \E o \in {"lock", "lock_with_max_attempts"} : Enter(t, o)
    /\ UNCHANGED nested

\* A thread inside an acquire keeps running: the scheduler runs every
\* runnable thread, and yield_now and sleep(1 ms) return.
Acquiring(t) == LockCas(t) \/ LockPoll(t)

NextHeld == \E t \in Threads : CallAcquire(t) \/ LockCas(t) \/ LockPoll(t)

\* No thread calls unlock: the thread that acquires first holds the lock for
\* ever, and the others keep calling.
SpecHeld ==
    /\ Init
    /\ [][NextHeld]_vars
    /\ \A t \in Threads : WF_vars(Acquiring(t))

\* --------------------------------------------- lock and unlock, over and over
\* An idle thread calls lock().
CallLock(t) ==
    /\ pc[t] = "idle"
    /\ Enter(t, "lock")
    /\ UNCHANGED nested

NextFair == \E t \in Threads : CallLock(t) \/ LockCas(t) \/ LockPoll(t) \/ ClientUnlock(t)

\* Threads that call lock() and unlock() any number of times.  A thread inside
\* lock() keeps running, and every lease is released; a thread need not call
\* lock() again.
SpecFair ==
    /\ Init
    /\ [][NextFair]_vars
    /\ \A t \in Threads : WF_vars(Acquiring(t)) /\ WF_vars(ClientUnlock(t))

\* ------------------------------------------------------- nested acquisition
\* A thread that holds the lease calls lock() again.
NestedCall(t) ==
    /\ pc[t] = "held"
    /\ ~nested[t]
    /\ nested' = [nested EXCEPT ![t] = TRUE]
    /\ Enter(t, "lock")

NextReentrant ==
    \E t \in Threads :
        CallLock(t) \/ NestedCall(t) \/ LockCas(t) \/ LockPoll(t) \/ ClientUnlock(t)

\* Threads that call lock() and unlock(), and may call lock() while holding
\* the lease.
SpecReentrant == Init /\ [][NextReentrant]_vars

\* ------------------------------- bounded and unbounded acquires with unlock
NextBounded ==
    \E t \in Threads : CallAcquire(t) \/ LockCas(t) \/ LockPoll(t) \/ ClientUnlock(t)

\* Threads that call lock() or lock_with_max_attempts() and unlock() any
\* number of times.  A thread inside an acquire keeps running, and every lease
\* is released.
SpecBounded ==
    /\ Init
    /\ [][NextBounded]_vars
    /\ \A t \in Threads : WF_vars(Acquiring(t)) /\ WF_vars(ClientUnlock(t))

\* ------------------------------------------------------ an unlucky schedule
\* The thread whose compare-and-swap the schedule below always runs late.
Victim == 1

\* The compare-and-swap of the victim, run only at moments when the flag is
\* held.
LateCas(t) == lock_ /\ LockCas(t)

\* A poll of the wait loop that finds the flag free.
PollFree(t) == ~lock_ /\ LockPoll(t)

NextStarve ==
    \/ LateCas(Victim)
    \/ \E t \in Threads \ {Victim} : LockCas(t)
    \/ \E t \in Threads : CallLock(t) \/ LockPoll(t) \/ ClientUnlock(t)

\* The executions of threads calling lock() and unlock() over and over in
\* which the scheduler runs each compare-and-swap of the victim at a moment
\* when the flag is held, lets the victim's poll see the flag free again and
\* again, and runs every thread again and again.  (The conjuncts after the box
\* select executions; that each of them is weakly fair to every thread is not
\* assumed here but checked.)
SpecStarve ==
    /\ Init
    /\ [][NextStarve]_vars
    /\ \A t \in Threads :
          WF_vars(CallLock(t)) /\ WF_vars(LockPoll(t)) /\ WF_vars(ClientUnlock(t))
    /\ SF_vars(LateCas(Victim)) /\ SF_vars(PollFree(Victim))
    /\ \A t \in Threads \ {Victim} : WF_vars(LockCas(t))

\* ------------------------------------------- a computation that does not return
\* (mutant) a guard unlocks when the computation unwinds
FAbortGuarded(t) ==
    /\ pc[t] \in {"f_read", "f_write"}
    /\ unlock(t)
    /\ pc' = [pc EXCEPT ![t] = "aborted"]
    /\ UNCHANGED <<op, locals, r, result, ret, harnessVars, nested, fcalls,
                   fres, waited, sawFree, everHeld, misuse, backoff>>

\* The computation passed to with_lock or with_lock_timeout panics, before or
\* after its read of the payload: the rest of the helper, self.unlock()
\* included, is not executed (the helper holds no guard that would unlock on
\* unwinding), and the thread is gone.
FAbort(t) ==
    /\ pc[t] \in {"f_read", "f_write"}
    /\ pc' = [pc EXCEPT ![t] = "aborted"]
    /\ UNCHANGED <<lock_, memVars, holds, op, locals, r, result, ret, harnessVars,
                   nested, fcalls, fres, waited, sawFree, everHeld, misuse, backoff>>

NextAbort ==
    \E t \in Threads :
        \/ Call(t)
        \/ LockCas(t)
        \/ LockPoll(t)
        \/ ClientUnlock(t)
        \/ FRead(t)
        \/ FWrite(t)
        \/ HelperUnlock(t)
        \/ FAbort(t)

\* Threads using the four operations, with computations that may panic.  A
\* thread inside an acquire keeps running.
SpecAbort ==
    /\ Init
    /\ [][NextAbort]_vars
    /\ \A t \in Threads : WF_vars(Acquiring(t))

\* --------------------------------------------------- unlock out of contract
\* What an unlock() by an idle thread is: a second unlock for the acquisition
\* of its last call (which its first unlock released), or an unlock by a thread
\* whose last call, if any, acquired nothing or released by itself.
MisuseKind(t) ==
    IF op[t] \in {"lock", "lock_with_max_attempts"} /\ ret[t].kind \in {"unit", "Ok"}
    THEN "twice"
    ELSE "no_lease"

\* A thread that holds no lease calls unlock(): the store is made all the
\* same, and the call returns nothing.
MisuseUnlock(t) ==
    /\ pc[t] = "idle"
    /\ unlock(t)
    /\ misuse' = misuse \cup {MisuseKind(t)}
    /\ UNCHANGED <<pc, op, locals, r, result, ret, harnessVars, nested, fcalls,
                   fres, waited, sawFree, everHeld, backoff>>

NextMisuse ==
    \E t \in Threads :
        CallAcquire(t) \/ LockCas(t) \/ LockPoll(t) \/ ClientUnlock(t) \/ MisuseUnlock(t)

\* Threads that call lock(), lock_with_max_attempts() and unlock(), and may
\* call unlock() without holding the lease.
SpecMisuse == Init /\ [][NextMisuse]_vars

\* ------------------------------------------------------------------- claims
Max == SPIN_LOCK_MAX_ATTEMPTS

\* C1 (mutual exclusion): at most one thread is between its successful acquire
\* and its unlock, and the flag is held while a thread is.
C1_MutualExclusion ==
    /\ \A t, u \in Threads : holds[t] /\ holds[u] => t = u
    /\ \A t \in Threads : holds[t] => lock_

\* One thread holds the lease while another, having seen the flag free and
\* lost the compare-and-swap, waits.
C1_Witness ==
    \E t, u \in Threads :
        /\ t # u
        /\ holds[t]
        /\ pc[u] = "poll"
        /\ sawFree[u]

\* The increments worker t has applied: 1 for each finished outer iteration
\* (its cycle with a = 0 adds 0), and 1 more once the write of the cycle with
\* a = 1 is done.
Applied(t) == job[t] + (IF a[t] = 1 /\ pc[t] = "cs_done" THEN 1 ELSE 0)

RECURSIVE SumApplied(_)
SumApplied(S) ==
    IF S = {} THEN 0
    ELSE LET t == CHOOSE x \in S : TRUE IN Applied(t) + SumApplied(S \ {t})

\* C2 (counter correctness): the counter always equals the sum of the
\* increments applied so far, so no update is lost; once every worker has
\* finished it is NumThreads * NumJobs (one 1 per outer iteration of each
\* worker, i.e. N * M / 2 for M = 2 * NumJobs cycles), which is what main reads
\* and prints.
C2_CounterCorrect ==
    /\ data = SumApplied(Threads)
    /\ (\A t \in Threads : pc[t] = "done") => data = NumThreads * NumJobs
    /\ printed \in {{}, {NumThreads * NumJobs}}

\* Every worker has finished all its cycles and main has printed the sum.
C2_Witness ==
    /\ \A t \in Threads : pc[t] = "done" /\ job[t] = NumJobs
    /\ data = NumThreads * NumJobs
    /\ printed = {NumThreads * NumJobs}

\* C3 (payload access and visibility): the computation of with_lock and
\* with_lock_timeout runs only in the thread that holds the lease, no payload
\* access is made without the lease, and at the start of its lease the thread
\* sees the payload as the preceding lease left it (as passed to new if there
\* was none): no access of it races, and the value it reads is that value.
C3_PayloadLeaseVisibility ==
    /\ ~badAccess
    /\ \A t \in Threads :
        /\ pc[t] \in {"f_read", "f_write", "f_done"} => holds[t]
        /\ pc[t] = "f_read" => ~stale[t] /\ data = left
        /\ pc[t] = "f_write" => ~stale[t] /\ r[t] = left

\* A thread inside with_lock_timeout has read, at the start of its lease, the
\* payload as the preceding lease left it, which is no longer the value the
\* other thread's with_lock had read.
C3_Witness ==
    \E t, u \in Threads :
        /\ t # u
        /\ op[t] = "with_lock_timeout" /\ pc[t] = "f_write"
        /\ op[u] = "with_lock" /\ pc[u] = "idle" /\ ret[u].kind = "value"
        /\ r[t] = left
        /\ {r[t]} # ret[u].val

\* Thread t is inside an acquire.
Waiting(t) == pc[t] \in {"cas", "poll"}

\* The step in which the acquire of thread t returns.
AcquireReturns(t) == Waiting(t) /\ ~Waiting(t)'

\* C4 (bounded-acquire failure): while another thread holds the lock and
\* never releases it, a call of lock_with_max_attempts returns only the timeout
\* failure, at its 500th wait-loop iteration, leaving the flag held and the
\* holder's lease in place and taking no lease itself; no step frees the flag;
\* and the call does return.
C4_BoundedAcquireFails ==
    /\ [][\A t \in Threads :
            (AcquireReturns(t) /\ \E u \in Threads \ {t} : holds[u]) =>
                /\ op[t] = "lock_with_max_attempts"
                /\ ret'[t] = ErrRet
                /\ attempts[t] = Max - 1 /\ attempts'[t] = Max
                /\ lock_ /\ lock_'
                /\ holds' = holds /\ ~holds'[t]]_vars
    /\ [][lock_ => lock_']_vars
    /\ [](\A t \in Threads : attempts[t] <= Max)
    /\ \A t \in Threads :
          (/\ Waiting(t) /\ op[t] = "lock_with_max_attempts"
           /\ \E u \in Threads \ {t} : holds[u])
             ~> (pc[t] = "idle" /\ ret[t] = ErrRet)

\* lock_with_max_attempts has returned the failure after 500 iterations while
\* the other thread holds the lock.
C4_Witness ==
    \E t, u \in Threads :
        /\ t # u
        /\ holds[u] /\ lock_
        /\ op[t] = "lock_with_max_attempts" /\ pc[t] = "idle"
        /\ ret[t] = ErrRet /\ attempts[t] = Max /\ ~holds[t]

\* C5 as stated: a call that saw the flag free (after iterations it had
\* counted) does not return the timeout failure.
C5_Original ==
    \A t \in Threads : ret[t].kind = "Err" => ~sawFree[t]

\* C5 (amended): the timeout failure is returned only by the bounded acquire,
\* and only when the wait-loop iterations of the call, all of them counted from
\* its start, those before an observation of a free flag included, reach
\* SPIN_LOCK_MAX_ATTEMPTS.
C5_TimeoutOnlyAtBudget ==
    \A t \in Threads :
        /\ ret[t].kind = "Err" =>
              Bounded(op[t]) /\ attempts[t] = Max /\ waited[t] /\ pc[t] = "idle"
        /\ attempts[t] = Max => ret[t].kind = "Err"

\* A call timed out although it had seen the flag free on the way.
C5_Witness ==
    \E t \in Threads :
        ret[t].kind = "Err" /\ sawFree[t] /\ op[t] = "lock_with_max_attempts"

\* The unlock of a lease holder leaves the flag free, and the flag is held
\* only while some thread holds the lease.
ReleaseFrees ==
    /\ [][\A t \in Threads : (holds[t] /\ ~holds'[t]) => ~lock_']_vars
    /\ []((\A t \in Threads : ~holds[t]) => ~lock_)

\* C6 as stated: after a release, every lock() eventually succeeds (under weak
\* fairness, every lease being released).
C6_Original ==
    /\ ReleaseFrees
    /\ \A t \in Threads : (released /\ Waiting(t)) ~> holds[t]

\* C6 (amended): after a release the flag is free again, and a lock() eventually
\* succeeds unless the other threads keep acquiring the lock for ever.
C6_NoMissedRelease ==
    /\ ReleaseFrees
    /\ \A t \in Threads :
          \/ (released /\ Waiting(t)) ~> holds[t]
          \/ []<>(\E u \in Threads \ {t} : holds[u])

\* After the other thread's lock() and unlock(), a thread's lock() has
\* succeeded.
C6_Witness ==
    \E t, u \in Threads :
        /\ t # u
        /\ released /\ pc[u] = "idle" /\ op[u] = "lock" /\ ret[u].kind = "unit"
        /\ holds[t] /\ pc[t] = "held" /\ op[t] = "lock"

\* C7 (fresh lock): a new lock is free, and until the first acquisition no
\* compare-and-swap has failed and no thread has run a wait-loop iteration: the
\* first compare-and-swap on the lock succeeds, with the attempts and the sleep
\* counter of its call still 0.
C7_FreshLockImmediate ==
    ~everHeld =>
        /\ ~lock_
        /\ \A t \in Threads :
            /\ pc[t] \in {"idle", "cas"}
            /\ ~waited[t]
            /\ attempts[t] = 0
            /\ freq[t] = 0
            /\ ret[t] = NoRet

\* The first call on the lock, a lock_with_max_attempts, returned Ok without
\* a wait-loop iteration while no other thread has called anything.
C7_Witness ==
    \E t \in Threads :
        /\ holds[t] /\ pc[t] = "held" /\ ret[t] = OkUnit
        /\ attempts[t] = 0 /\ freq[t] = 0
        /\ \A u \in Threads \ {t} : op[u] = "none"

\* C8 (scoped helpers): the computation runs only while its thread holds the
\* lease, at most once per call, and when with_lock or with_lock_timeout has
\* returned a result the computation has run exactly once, the thread no
\* longer holds the lease and the value returned is the computation's result.
C8_HelperOnceAndRelease ==
    \A t \in Threads :
        /\ pc[t] \in {"f_read", "f_write", "f_done"} => holds[t] /\ Helper(op[t])
        /\ fcalls[t] <= 1
        /\ (Helper(op[t]) /\ pc[t] = "idle" /\ ret[t].kind \in {"value", "Ok"}) =>
              /\ fcalls[t] = 1
              /\ ~holds[t]
              /\ fres[t] # {}
              /\ ret[t].val = fres[t]

\* with_lock_timeout has returned Ok(1) and the other thread's with_lock has
\* returned 0, each the payload its computation read, and the lock is free
\* again.
C8_Witness ==
    \E t, u \in Threads :
        /\ t # u
        /\ op[t] = "with_lock_timeout" /\ pc[t] = "idle"
        /\ ret[t].kind = "Ok" /\ ret[t].val = {1}
        /\ op[u] = "with_lock" /\ pc[u] = "idle" /\ ret[u].val = {0}
        /\ ~lock_

\* The step in which with_lock_timeout of thread t returns the failure.
TimeoutReturn(t) ==
    op[t] = "with_lock_timeout" /\ ret[t].kind # "Err" /\ ret'[t].kind = "Err"

\* C9 (timeout propagation): the step in which with_lock_timeout returns the
\* failure changes neither the flag, which is held, nor the payload, nor any
\* lease, and another thread holds the lease before and after it; and once
\* the failure is returned the call is over: the computation has not run, the
\* caller holds no lease and does nothing more (so it calls no unlock).
C9_TimeoutPropagates ==
    /\ [][\A t \in Threads : TimeoutReturn(t) =>
            /\ lock_ /\ lock_'
            /\ UNCHANGED <<data, holds, left, stale, msgStale>>
            /\ \E u \in Threads \ {t} : holds[u] /\ holds'[u]]_vars
    /\ [](\A t \in Threads : ret[t].kind = "Err" =>
            /\ pc[t] = "idle"
            /\ fcalls[t] = 0 /\ fres[t] = {} /\ result[t] = {}
            /\ ~holds[t])

\* with_lock_timeout has returned the failure while the other thread holds the
\* lease.
C9_Witness ==
    \E t, u \in Threads :
        /\ t # u
        /\ op[t] = "with_lock_timeout" /\ ret[t] = ErrRet /\ pc[t] = "idle"
        /\ holds[u] /\ lock_


\* C10 (no reentrancy): once a thread has called lock() while holding the
\* lease, it stays inside that call for ever, still the lease holder, the flag
\* held and no other thread holding the lease.
C10_NestedLockDeadlocks ==
    \A t \in Threads :
        nested[t] =>
            /\ Waiting(t)
            /\ lock_
            /\ holds[t]
            /\ \A u \in Threads \ {t} : ~holds[u]

\* The nested lock() has run 49 wait-loop iterations and the other thread
\* waits in lock() as well.
C10_Witness ==
    \E t, u \in Threads :
        /\ t # u
        /\ nested[t] /\ pc[t] = "poll" /\ freq[t] = SPIN_LOCK_SLEEP_ONE_FREQUENCY - 1
        /\ pc[u] = "poll" /\ waited[u]

\* C11 (unchecked unlock): an unlock() by a thread that holds no lease (never
\* acquired, or already released) is not detected: it frees the flag, takes no
\* lease away and returns nothing.  The flag is free while a lease is held, and
\* two threads hold the lease at the same time, only after such a call.
C11_UnlockUnchecked ==
    /\ [][\A t \in Threads :
            MisuseUnlock(t) =>
                /\ ~lock_'
                /\ holds' = holds
                /\ UNCHANGED <<pc, ret, data>>]_vars
    /\ []((\E t \in Threads : holds[t] /\ ~lock_) => misuse # {})
    /\ []((\E t, u \in Threads : t # u /\ holds[t] /\ holds[u]) => misuse # {})

\* After a thread's second unlock() for one acquisition, made while the other
\* thread held the lease, both threads hold the lease.
C11_Witness ==
    \E t, u \in Threads :
        /\ t # u
        /\ misuse = {"twice"}
        /\ holds[t] /\ pc[t] = "held"
        /\ holds[u] /\ pc[u] = "held"

\* The same after an unlock() by a thread that had acquired nothing.
C11_WitnessNoLease ==
    \E t, u \in Threads :
        /\ t # u
        /\ misuse = {"no_lease"}
        /\ holds[t] /\ pc[t] = "held"
        /\ holds[u] /\ pc[u] = "held"


\* Thread t is inside lock(), called directly or by with_lock.
InLock(t) == Waiting(t) /\ op[t] \in {"lock", "with_lock"}

\* C12 (unbounded acquire): lock() returns only in the step of its own
\* compare-and-swap that finds the flag free and leaves it held, the caller
\* then holding the lease; a poll that finds the flag free only leads back to
\* the compare-and-swap; from a state in which the flag is held no step takes a
\* thread out of lock(), so the call does not return while the flag stays
\* held; and lock() never returns a failure.
C12_LockReturnsOnlyOnOwnCas ==
    /\ [][\A t \in Threads :
            (InLock(t) /\ AcquireReturns(t)) =>
                /\ pc[t] = "cas"
                /\ ~lock_ /\ lock_'
                /\ ~holds[t] /\ holds'[t]
                /\ ret'[t].kind # "Err"]_vars
    /\ [][\A t \in Threads :
            (InLock(t) /\ pc[t] = "poll" /\ pc'[t] # "poll") =>
                /\ ~lock_ /\ ~lock_'
                /\ pc'[t] = "cas"
                /\ ~holds'[t]
                /\ ret'[t] = NoRet]_vars
    /\ [][\A t \in Threads : (InLock(t) /\ lock_) => InLock(t)']_vars
    /\ [](\A t \in Threads : op[t] \in {"lock", "with_lock"} => ret[t].kind # "Err")

\* A thread in lock() that has slept in the wait loop, has seen the flag free
\* and lost the compare-and-swap is polling again while the other thread
\* holds the lease it took by lock_with_max_attempts.
C12_Witness ==
    \E t, u \in Threads :
        /\ t # u
        /\ op[t] = "lock" /\ pc[t] = "poll" /\ sawFree[t]
        /\ sched[t] = <<"yield_now", "sleep">>
        /\ holds[u] /\ op[u] = "lock_with_max_attempts"


\* C13 (bounded wait): every call of lock_with_max_attempts returns, whatever
\* the other threads do with the lock, provided the caller keeps running.
C13_BoundedWaitReturns ==
    \A t \in Threads :
        (Waiting(t) /\ op[t] = "lock_with_max_attempts") ~> ~Waiting(t)


\* What a step of thread t changes of t's position in its call and of the
\* locals and the history of its acquire (no other thread's step changes them).
OwnState(t) == <<pc[t], freq[t], attempts[t], ret[t], waited[t], sawFree[t], sched[t]>>

\* A step of thread t inside an acquire that takes no lease: a failed
\* compare-and-swap, a poll that finds the flag free, a wait-loop iteration
\* (with its yield and, every 50th, its sleep), or the timeout return.
FailedAcquireStep(t) ==
    Waiting(t) /\ OwnState(t)' # OwnState(t) /\ ~(holds'[t] /\ ~holds[t])

\* C14 (flag state machine and frame): the flag goes from free to held only in
\* the step of a thread at the compare-and-swap of an acquire, which takes the
\* lease and leaves the payload alone; it goes from held to free only in a
\* step in which a thread's unlock ends its lease; and every other step of a
\* thread inside an acquire leaves the flag, the payload, what is visible of it
\* and every lease unchanged.
C14_FlagFrame ==
    /\ [][(~lock_ /\ lock_') =>
            \E t \in Threads :
                /\ pc[t] = "cas" /\ ~Waiting(t)'
                /\ ~holds[t] /\ holds'[t]
                /\ UNCHANGED <<data, left>>]_vars
    /\ [][(lock_ /\ ~lock_') =>
            \E t \in Threads :
                /\ pc[t] \in {"held", "cs_done", "f_done"} /\ pc'[t] = "idle"
                /\ holds[t] /\ ~holds'[t]
                /\ UNCHANGED data]_vars
    /\ [][\A t \in Threads :
            FailedAcquireStep(t) =>
                UNCHANGED <<lock_, data, stale, msgStale, left, holds>>]_vars

\* lock_with_max_attempts has returned the timeout failure after 9 sleeps,
\* while the flag is held by the other thread, whose payload write of this
\* lease is in place.
C14_Witness ==
    \E t, u \in Threads :
        /\ t # u
        /\ op[t] = "lock_with_max_attempts" /\ ret[t] = ErrRet /\ sleeps[t] = 9
        /\ lock_ /\ holds[u] /\ pc[u] = "cs_done"
        /\ data # left


\* C15 (no starvation-freedom): the executions in which every compare-and-swap
\* of one thread runs while the flag is held are executions of the lock that
\* are weakly fair to every thread (to its acquire steps and to its unlock);
\* in them the other threads acquire and release the lock for ever, and the
\* thread calls lock(), makes compare-and-swap after compare-and-swap, loses
\* each and never holds the lease.
C15_FairStarvation ==
    /\ \A t \in Threads : WF_vars(Acquiring(t)) /\ WF_vars(ClientUnlock(t))
    /\ []<>(\E u \in Threads \ {Victim} : holds[u])
    /\ []<>(~lock_)
    /\ <>Waiting(Victim)
    /\ [][Waiting(Victim) => Waiting(Victim)']_vars
    /\ []<><<LockCas(Victim)>>_vars
    /\ [](~holds[Victim])

\* The victim, having slept in the wait loop and seen the flag free, is back
\* at the compare-and-swap while the other thread holds the lease again.
C15_Witness ==
    \E u \in Threads \ {Victim} :
        /\ pc[Victim] = "cas" /\ sawFree[Victim]
        /\ sched[Victim] = <<"yield_now", "sleep">>
        /\ holds[u] /\ lock_ /\ released


\* The computation of some thread's helper call has aborted.
Aborted == \E t \in Threads : pc[t] = "aborted"

\* C16 (aborting computation): once the computation passed to with_lock or
\* with_lock_timeout has aborted, its thread keeps the lease for ever and the
\* flag stays held; from then on no thread leaves lock() (called directly or by
\* with_lock), every acquire that returns is a lock_with_max_attempts (called
\* directly or by with_lock_timeout) returning the timeout failure at its 500th
\* wait-loop iteration, and every lock_with_max_attempts does return it.
C16_AbortLeavesLockHeld ==
    /\ [](\A t \in Threads :
            pc[t] = "aborted" =>
                /\ lock_ /\ holds[t] /\ Helper(op[t])
                /\ \A u \in Threads \ {t} : ~holds[u])
    /\ [][Aborted => Aborted' /\ lock_']_vars
    /\ [][\A u \in Threads : (Aborted /\ InLock(u)) => InLock(u)']_vars
    /\ [][\A u \in Threads :
            (Aborted /\ AcquireReturns(u)) =>
                /\ Bounded(op[u])
                /\ ret'[u] = ErrRet /\ attempts'[u] = Max
                /\ pc'[u] = "idle"]_vars
    /\ \A u \in Threads :
          (Aborted /\ Waiting(u) /\ Bounded(op[u])) ~> (pc[u] = "idle" /\ ret[u] = ErrRet)

\* The computation of a with_lock aborted after reading the payload, and the
\* other thread's with_lock_timeout has since returned the timeout failure
\* without running its computation.
C16_Witness ==
    \E t, u \in Threads :
        /\ t # u
        /\ pc[t] = "aborted" /\ op[t] = "with_lock" /\ fcalls[t] = 1
        /\ op[u] = "with_lock_timeout" /\ pc[u] = "idle" /\ ret[u] = ErrRet
        /\ fcalls[u] = 0 /\ lock_


\* Some thread is inside lock().
SomeWaiting == \E t \in Threads : Waiting(t)

\* C17 (lock-level progress): with every thread running and every lease
\* released, when a thread is inside lock() while the flag is held the flag
\* becomes free with a thread still inside lock(); when a thread is inside
\* lock() and the flag is free some thread acquires the lock; and a thread at
\* its compare-and-swap with the flag free can take the lock in its next step.
C17_LockProgress ==
    /\ (SomeWaiting /\ lock_) ~> (SomeWaiting /\ ~lock_)
    /\ (SomeWaiting /\ ~lock_) ~> (\E u \in Threads : holds[u])
    /\ [](\A t \in Threads :
            (pc[t] = "cas" /\ ~lock_) => ENABLED (LockCas(t) /\ holds'[t]))

\* A thread holds the lock it acquired after a release, while the other, which
\* saw the flag free and lost the race, is back at its compare-and-swap.
C17_Witness ==
    \E t, u \in Threads :
        /\ t # u
        /\ released /\ holds[t] /\ pc[t] = "held"
        /\ pc[u] = "cas" /\ sawFree[u] /\ sched[u] = <<"yield_now">>


\* Every worker has run all its cycles and ended.
AllDone == \A t \in Threads : pc[t] = "done" /\ job[t] = NumJobs /\ a[t] = 0

\* C18 (harness termination): every worker completes its NumJobs outer
\* iterations of two lock / add / unlock cycles each, main's join of the
\* workers completes and main reads the counter, and from then on the lock is
\* free and no worker holds a lease; no worker ends before its last cycle.
C18_HarnessTerminates ==
    /\ \A t \in Threads : <>(pc[t] = "done")
    /\ <>[](AllDone /\ printed # {} /\ ~lock_ /\ \A t \in Threads : ~holds[t])
    /\ [](\A t \in Threads : pc[t] = "done" => job[t] = NumJobs /\ ~holds[t])
    /\ []((\A t \in Threads : pc[t] = "done") => ~lock_)

\* All workers have ended, main has joined them and read the counter, and the
\* lock is free after its last release.
C18_Witness ==
    /\ AllDone
    /\ printed # {}
    /\ released /\ ~lock_
    /\ \A t \in Threads : ~holds[t] /\ op[t] = "lock"


\* The most sleeps a call of lock_with_max_attempts makes: one per full
\* SPIN_LOCK_SLEEP_ONE_FREQUENCY iterations before the last one.
MaxSleeps == (SPIN_LOCK_MAX_ATTEMPTS - 1) \div SPIN_LOCK_SLEEP_ONE_FREQUENCY

\* A wait-loop iteration of thread t's lock_with_max_attempts: a step of t at
\* the poll that finds the flag held.
BoundedIteration(t) ==
    Bounded(op[t]) /\ pc[t] = "poll" /\ lock_ /\ OwnState(t)' # OwnState(t)

\* C19 (attempts): in lock_with_max_attempts every wait-loop iteration adds 1
\* to attempts, and while the call lasts no step lowers it, so attempts is the
\* number of wait-loop iterations of the call, those before an observation of
\* a free flag included; the call returns the timeout failure in exactly the
\* step that brings attempts to 500; attempts never exceeds 500; that
\* iteration does not sleep and the earlier ones sleep at every 50th, so the
\* sleeps of a call number attempts \div 50, at most 9.
C19_AttemptsBudget ==
    /\ [][\A t \in Threads :
            /\ BoundedIteration(t) => attempts'[t] = attempts[t] + 1
            /\ (Bounded(op[t]) /\ Waiting(t) /\ ~BoundedIteration(t) /\ Waiting(t)') =>
                  attempts'[t] = attempts[t] /\ sleeps'[t] = sleeps[t]
            /\ (Bounded(op[t]) /\ Waiting(t)) =>
                  (ret'[t] = ErrRet <=> (BoundedIteration(t) /\ attempts'[t] = Max))
            /\ (BoundedIteration(t) /\ attempts'[t] = Max) =>
                  "sleep" \notin {sched'[t][i] : i \in DOMAIN sched'[t]}]_vars
    /\ [](\A t \in Threads :
            /\ attempts[t] <= Max
            /\ sleeps[t] = (IF attempts[t] = Max THEN Max - 1 ELSE attempts[t])
                               \div SPIN_LOCK_SLEEP_ONE_FREQUENCY
            /\ sleeps[t] <= MaxSleeps
            /\ sleeps[t] <= 9)

\* A call of lock_with_max_attempts that saw the flag free on the way has
\* returned the timeout failure at 500 iterations, after 9 sleeps, its last
\* iteration having yielded only.
C19_Witness ==
    \E t \in Threads :
        /\ op[t] = "lock_with_max_attempts" /\ pc[t] = "idle" /\ ret[t] = ErrRet
        /\ sawFree[t]
        /\ attempts[t] = Max /\ sleeps[t] = 9
        /\ sched[t] = <<"yield_now">>


\* A wait-loop iteration of thread t's lock(): a step of t at the poll that
\* finds the flag held.
LockIteration(t) ==
    op[t] = "lock" /\ pc[t] = "poll" /\ lock_ /\ OwnState(t)' # OwnState(t)

\* Whether the scheduler calls cs include call c.
Calls(cs, c) == \E i \in DOMAIN cs : cs[i] = c

\* C20 as stated: freq stays in 0..49, and an iteration that sleeps does not
\* yield.
C20_Original ==
    \A t \in Threads :
        /\ freq[t] \in 0..(SPIN_LOCK_SLEEP_ONE_FREQUENCY - 1)
        /\ Calls(sched[t], "sleep") => ~Calls(sched[t], "yield_now")

\* C20 (amended): in lock() every wait-loop iteration yields; an iteration
\* that finds freq below 49 adds 1 to it and does not sleep, and one that finds
\* it at 49, the 50th since the last sleep or the start of the call, yields and
\* then sleeps and leaves freq at 0; the other steps of the call (a failed
\* compare-and-swap, a poll that finds the flag free) leave freq as it is; so
\* freq stays in 0..49.
C20_BackoffSchedule ==
    /\ [][\A t \in Threads :
            /\ LockIteration(t) =>
                  /\ sched'[t][1] = "yield_now"
                  /\ IF freq[t] = SPIN_LOCK_SLEEP_ONE_FREQUENCY - 1
                     THEN freq'[t] = 0 /\ sched'[t] = <<"yield_now", "sleep">>
                     ELSE freq'[t] = freq[t] + 1 /\ sched'[t] = <<"yield_now">>
            /\ (op[t] = "lock" /\ Waiting(t) /\ ~LockIteration(t) /\ Waiting(t)') =>
                  freq'[t] = freq[t] /\ sched'[t] = sched[t]]_vars
    /\ [](\A t \in Threads : freq[t] \in 0..(SPIN_LOCK_SLEEP_ONE_FREQUENCY - 1))

\* A thread in lock() that saw the flag free and lost the compare-and-swap has
\* gone on to its 50th iteration: it has yielded and slept, and freq is 0 again.
C20_Witness ==
    \E t \in Threads :
        /\ op[t] = "lock" /\ pc[t] = "poll" /\ sawFree[t]
        /\ sched[t] = <<"yield_now", "sleep">> /\ freq[t] = 0

=============================================================================
